---- MODULE Spec2Model ----
(***************************************************************************)
(* TaxiBot document pipeline (express-api/index.js): processDocument and   *)
(* the functions it calls, as a state machine over concurrent runs, plus   *)
(* the tax calculators as pure operators over JavaScript values, and       *)
(* generateTaxReport, searchTaxRules and the message handler's user         *)
(* registration as state machines of their own.                            *)
(*                                                                         *)
(* JavaScript values are tagged records.  A number Num(n) denotes the      *)
(* decimal n / Scale, so currency amounts and the products base * rate are *)
(* exact integers here (the code computes them in IEEE doubles).           *)
(***************************************************************************)
EXTENDS Integers, Sequences, FiniteSets, TLC

\* ------------------------------------------------------------------------
\* Bounds of the model
\* ------------------------------------------------------------------------

\* Largest totalValue (in currency units, in steps of BaseStep) given to the
\* calculators.
MaxBase == 2

\* Largest number of documents the search service returns to one call.
MaxDocs == 1

\* Largest number of rows of one user and month in table documents.
MaxBlobs == 2

\* Largest number of documents the search service returns to a searchTaxRules
\* call made on its own.
MaxSearchDocs == 6

\* The runs of processDocument that execute concurrently.
Runs == {1, 2}

\* The calls of calculateTaxesWithRules made on one record: the second may
\* be made before the first has returned.
Calls == {1, 2}

\* The message handlers that execute concurrently.
Handlers == {1, 2, 3}

\* ------------------------------------------------------------------------
\* JavaScript values
\* ------------------------------------------------------------------------

Scale == 100 * 100

BaseStep == 500 * Scale

Undefined == [t |-> "undefined"]

Null == [t |-> "null"]

NaN == [t |-> "NaN"]

Num(n) == [t |-> "number", n |-> n]

Str(s) == [t |-> "string", s |-> s]

Obj(f) == [t |-> "object", f |-> f]

Arr(a) == [t |-> "array", a |-> a]

EmptyObj == Obj([k \in {} |-> Undefined])

\* A completed call: a returned value, or a thrown error.
Return(v) == [ok |-> TRUE, v |-> v]

Throw(e) == [ok |-> FALSE, e |-> e]

Nullish(v) == v.t \in {"undefined", "null"}

\* v.k for a v that is neither null nor undefined (those throw at the caller).
Get(v, k) == IF v.t = "object" /\ k \in DOMAIN v.f THEN v.f[k] ELSE Undefined

\* v?.k
OptGet(v, k) == IF Nullish(v) THEN Undefined ELSE Get(v, k)

Truthy(v) ==
    CASE v.t = "undefined" -> FALSE
      [] v.t = "null" -> FALSE
      [] v.t = "NaN" -> FALSE
      [] v.t = "number" -> v.n # 0
      [] v.t = "string" -> v.s # ""
      [] OTHER -> TRUE

\* a || b
Or(a, b) == IF Truthy(a) THEN a ELSE b

\* Number(s) for the strings of the model: the decimal numerals, the empty
\* string (0), and anything else (NaN).
StringToNumber(s) ==
    CASE s = "" -> Num(0)
      [] s = "100" -> Num(100 * Scale)
      [] s = "1000" -> Num(1000 * Scale)
      [] OTHER -> NaN

\* ToNumber of the operand of a multiplication.
ToNumber(v) ==
    CASE v.t = "number" -> v
      [] v.t = "null" -> Num(0)
      [] v.t = "string" -> StringToNumber(v.s)
      [] OTHER -> NaN

\* v * (bp / 10000): bp is the factor in hundredths of a percent.  The
\* product x.n * bp / Scale is taken on the whole and fractional parts of
\* x.n / Scale apart, which keeps the intermediate values small.
Times(v, bp) ==
    LET x == ToNumber(v)
    IN IF x.t = "NaN"
       THEN NaN
       ELSE Num((x.n \div Scale) * bp + ((x.n % Scale) * bp) \div Scale)

\* String.prototype.toLowerCase on the municipality names of the model.
\* U+00C3 lowers to U+00E3; U+00A3 has no case.
ToLowerCase(s) ==
    CASE s = "SÃ£o Paulo" -> "sã£o paulo"
      [] s = "sÃ£o paulo" -> "sã£o paulo"
      [] s = "São Paulo" -> "são paulo"
      [] s = "SÃO PAULO" -> "são paulo"
      [] s = "Campinas" -> "campinas"
      [] OTHER -> s

\* ------------------------------------------------------------------------
\* Rate tables
\* ------------------------------------------------------------------------

PISRate == 165

COFINSRate == 760

CTERate == 1200

IPIRate == 400

HalfFactor == 5000

\* A rate in percent as a factor in hundredths of a percent (rate / 100).
Percent(p) == p * 100

getICMSRates(state, operation) ==
    IF state = Str("SP") /\ operation = Str("VENDA")
    THEN [standard |-> 18, reduced |-> 12]
    ELSE IF state = Str("RJ")
         THEN [standard |-> 20, reduced |-> 13]
         ELSE [standard |-> 18, reduced |-> 12]

\* municipality.toLowerCase() throws on a value that is no string.
getISSRate(municipality, serviceCode) ==
    IF municipality.t # "string"
    THEN Throw("TypeError")
    ELSE IF ToLowerCase(municipality.s) = "sÃ£o paulo"
         THEN Return(5)
         ELSE Return(3)

\* Mutant: the basic category is charged 4% less a fixed rebate of 10.
calculateIPI_Rebate(documentData) ==
    IF OptGet(Get(documentData, "taxInfo"), "ipiCategory") = Str("basic")
    THEN LET ipi == Times(Or(Get(documentData, "totalValue"), Num(0)), IPIRate)
         IN IF ipi.t = "number" THEN Num(ipi.n - 10 * Scale) ELSE ipi
    ELSE Num(0)

calculateIPI(documentData) ==
    IF OptGet(Get(documentData, "taxInfo"), "ipiCategory") = Str("basic")
    THEN Times(Or(Get(documentData, "totalValue"), Num(0)), IPIRate)
    ELSE Num(0)

\* ------------------------------------------------------------------------
\* Calculators
\* ------------------------------------------------------------------------

calculateNFETaxes(documentData, taxRules) ==
    LET baseValue == Or(Get(documentData, "totalValue"), Num(0))
        state == Or(Get(documentData, "state"), Str("SP"))
        operation == Or(Get(documentData, "operationType"), Str("VENDA"))
        icmsRates == getICMSRates(state, operation)
    IN Return(Obj([baseValue |-> baseValue,
                   taxes |-> Obj([ICMS |-> Times(baseValue, Percent(icmsRates.standard)),
                                  IPI |-> calculateIPI(documentData),
                                  PIS |-> Times(baseValue, PISRate),
                                  COFINS |-> Times(baseValue, COFINSRate)])]))

calculateNFSETaxes(documentData, taxRules) ==
    LET baseValue == Or(Get(documentData, "totalValue"), Num(0))
        municipality == Or(Get(documentData, "municipality"), Str("SÃ£o Paulo"))
        serviceCode == Or(OptGet(Get(documentData, "taxInfo"), "serviceCode"), Str("1001"))
        issRate == getISSRate(municipality, serviceCode)
    IN IF ~issRate.ok
       THEN issRate
       ELSE Return(Obj([baseValue |-> baseValue,
                        taxes |-> Obj([ISS |-> Times(baseValue, Percent(issRate.v)),
                                       PIS |-> Times(baseValue, PISRate),
                                       COFINS |-> Times(baseValue, COFINSRate)])]))

\* Mutant: the NFCE calculator takes the standard rate, as the NFE one does.
calculateNFCETaxes_Standard(documentData, taxRules) ==
    LET baseValue == Or(Get(documentData, "totalValue"), Num(0))
        state == Or(Get(documentData, "state"), Str("SP"))
        operation == Or(Get(documentData, "operationType"), Str("VENDA"))
        icmsRates == getICMSRates(state, operation)
    IN Return(Obj([baseValue |-> baseValue,
                   taxes |-> Obj([ICMS |-> Times(baseValue, Percent(icmsRates.standard)),
                                  PIS |-> Times(baseValue, PISRate),
                                  COFINS |-> Times(baseValue, COFINSRate)])]))

calculateNFCETaxes(documentData, taxRules) ==
    LET baseValue == Or(Get(documentData, "totalValue"), Num(0))
        state == Or(Get(documentData, "state"), Str("SP"))
        operation == Or(Get(documentData, "operationType"), Str("VENDA"))
        icmsRates == getICMSRates(state, operation)
    IN Return(Obj([baseValue |-> baseValue,
                   taxes |-> Obj([ICMS |-> Times(baseValue, Percent(icmsRates.reduced)),
                                  PIS |-> Times(baseValue, PISRate),
                                  COFINS |-> Times(baseValue, COFINSRate)])]))

calculateCTETaxes(documentData, taxRules) ==
    LET baseValue == Or(Get(documentData, "totalValue"), Num(0))
    IN Return(Obj([baseValue |-> baseValue,
                   taxes |-> Obj([ICMS |-> Times(baseValue, CTERate)])]))

\* { ...baseCalculation } with taxes.ICMS halved, for regime 'Simples Nacional'.
\* The spread of a string has no taxes property, and reading .ICMS of it throws.
applySpecialRegimes(baseCalculation, documentData, taxRules) ==
    IF OptGet(Get(documentData, "taxInfo"), "regime") = Str("Simples Nacional")
    THEN LET taxes == Get(baseCalculation, "taxes")
         IN IF Nullish(taxes)
            THEN Throw("TypeError")
            ELSE IF taxes.t = "object" /\ Get(taxes, "ICMS") # Undefined
                 THEN Return(Obj([baseCalculation.f EXCEPT !["taxes"] =
                          Obj([taxes.f EXCEPT !["ICMS"] = Times(@, HalfFactor)])]))
                 ELSE Return(baseCalculation)
    ELSE Return(baseCalculation)

\* The property names every object literal inherits from Object.prototype.
ObjectPrototypeKeys ==
    {"constructor", "toString", "toLocaleString", "valueOf", "hasOwnProperty",
     "isPrototypeOf", "propertyIsEnumerable", "__proto__", "__defineGetter__",
     "__defineSetter__", "__lookupGetter__", "__lookupSetter__"}

\* String(v) for a property key.
PropertyKey(v) ==
    CASE v.t = "string" -> v.s
      [] v.t = "undefined" -> "undefined"
      [] v.t = "null" -> "null"
      [] OTHER -> "[value]"

\* taxCalculations[documentData.documentType] || calculateNFETaxes, applied:
\* an own key names its calculator; an inherited key names a member of
\* Object.prototype (constructor returns its argument, toString called with
\* no receiver returns "[object Undefined]", the others throw or are not
\* callable); any other key is undefined and falls to calculateNFETaxes.
calculator(documentData, taxRules) ==
    LET key == PropertyKey(Get(documentData, "documentType"))
    IN CASE key = "NFE" -> calculateNFETaxes(documentData, taxRules)
         [] key = "NFSE" -> calculateNFSETaxes(documentData, taxRules)
         [] key = "NFCE" -> calculateNFCETaxes(documentData, taxRules)
         [] key = "CTE" -> calculateCTETaxes(documentData, taxRules)
         [] key = "constructor" -> Return(documentData)
         [] key = "toString" -> Return(Str("[object Undefined]"))
         [] key \in ObjectPrototypeKeys \ {"constructor", "toString"} -> Throw("TypeError")
         [] OTHER -> calculateNFETaxes(documentData, taxRules)

\* baseCalculation is documentData itself: the calculator found under
\* "constructor" is Object, which returns its argument.
SharesRecord(documentData) ==
    PropertyKey(Get(documentData, "documentType")) = "constructor"

\* The record documentData refers to when calculateTaxesWithRules has run.
\* newCalc.taxes is the taxes object of baseCalculation itself (the spread
\* copies one level), so the halving writes into baseCalculation.taxes; that
\* is an object of the caller only when the calculator returned documentData.
documentDataAfter(documentData, taxRules) ==
    LET taxes == Get(documentData, "taxes")
    IN IF /\ PropertyKey(Get(documentData, "documentType")) = "constructor"
          /\ OptGet(Get(documentData, "taxInfo"), "regime") = Str("Simples Nacional")
          /\ taxes.t = "object"
          /\ Get(taxes, "ICMS") # Undefined
       THEN Obj([documentData.f EXCEPT !["taxes"] =
                Obj([taxes.f EXCEPT !["ICMS"] = Times(@, HalfFactor)])])
       ELSE documentData

calculateTaxesWithRules(documentData, taxRules) ==
    LET baseCalculation == calculator(documentData, taxRules)
    IN IF ~baseCalculation.ok
       THEN baseCalculation
       ELSE applySpecialRegimes(baseCalculation.v, documentData, taxRules)

\* ------------------------------------------------------------------------
\* JSON text
\* ------------------------------------------------------------------------

\* An object literal with the given fields, a field whose value is Undefined
\* being absent (JSON carries no undefined).
MkObj(all) == Obj([k \in {x \in DOMAIN all : all[x] # Undefined} |-> all[k]])

\* The record extractDocumentData falls back to.
DefaultRecord ==
    Obj([documentType |-> Str("NFE"),
         totalValue |-> Num(0),
         state |-> Str("SP"),
         municipality |-> Str("SÃ£o Paulo"),
         operationType |-> Str("VENDA"),
         taxInfo |-> EmptyObj])

\* The result validateCompliance falls back to.
FallbackValidation ==
    Obj([status |-> Str("warning"),
         issues |-> Arr(<<Str("Could not parse GPT response")>>),
         suggestions |-> Arr(<<>>)])

\* JSON.parse on the texts of the model: the value of a JSON text, and a
\* SyntaxError for any other text.
JSONParse(text) ==
    CASE text = "null" -> Return(Null)
      [] text = "42" -> Return(Num(42 * Scale))
      [] text = "{\"documentType\":\"NFE\",\"totalValue\":1000,\"state\":\"SP\",\"municipality\":\"Campinas\",\"operationType\":\"VENDA\",\"taxInfo\":{}}" ->
            Return(Obj([documentType |-> Str("NFE"),
                        totalValue |-> Num(1000 * Scale),
                        state |-> Str("SP"),
                        municipality |-> Str("Campinas"),
                        operationType |-> Str("VENDA"),
                        taxInfo |-> EmptyObj]))
      [] text = "{\"documentType\":\"NFSe\",\"totalValue\":-50}" ->
            Return(Obj([documentType |-> Str("NFSe"),
                        totalValue |-> Num((0 - 50) * Scale)]))
      [] text = "{\"documentType\":\"constructor\",\"taxInfo\":{\"regime\":\"Simples Nacional\"}}" ->
            Return(Obj([documentType |-> Str("constructor"),
                        taxInfo |-> Obj([regime |-> Str("Simples Nacional")])]))
      [] text = "{\"documentType\":\"NFE\",\"totalValue\":0,\"state\":\"SP\",\"municipality\":\"SÃ£o Paulo\",\"operationType\":\"VENDA\",\"taxInfo\":{}}" ->
            Return(DefaultRecord)
      [] text = "{\"status\":\"ok\",\"issues\":[],\"suggestions\":[]}" ->
            Return(Obj([status |-> Str("ok"),
                        issues |-> Arr(<<>>),
                        suggestions |-> Arr(<<>>)]))
      [] text = "{\"status\":\"WARNING\",\"issues\":\"missing CNPJ\"}" ->
            Return(Obj([status |-> Str("WARNING"),
                        issues |-> Str("missing CNPJ")]))
      [] OTHER -> Throw("SyntaxError")

\* The texts the structuring service answers with: prose, a truncated
\* object, JSON that is no object, a conforming record, and non-conforming
\* records.
StructuringTexts ==
    {"I could not read this document.",
     "{\"documentType\":\"NFE\",\"totalValue\":10",
     "null",
     "42",
     "{\"documentType\":\"NFE\",\"totalValue\":1000,\"state\":\"SP\",\"municipality\":\"Campinas\",\"operationType\":\"VENDA\",\"taxInfo\":{}}",
     "{\"documentType\":\"NFSe\",\"totalValue\":-50}",
     "{\"documentType\":\"constructor\",\"taxInfo\":{\"regime\":\"Simples Nacional\"}}"}

\* The texts the judgment service answers with.
JudgmentTexts ==
    {"The document looks compliant.",
     "null",
     "{\"status\":\"ok\",\"issues\":[],\"suggestions\":[]}",
     "{\"status\":\"WARNING\",\"issues\":\"missing CNPJ\"}"}

\* JSON.stringify of a DocumentRecord of the model: the compact text that
\* parses to it.
JSONTexts ==
    StructuringTexts \cup
    {"{\"documentType\":\"NFE\",\"totalValue\":0,\"state\":\"SP\",\"municipality\":\"SÃ£o Paulo\",\"operationType\":\"VENDA\",\"taxInfo\":{}}"}

JSONStringify(v) == CHOOSE text \in JSONTexts : JSONParse(text) = Return(v)

\* ------------------------------------------------------------------------
\* extractDocumentData and validateCompliance after the completion arrived
\* ------------------------------------------------------------------------

\* content is completion.choices[0].message.content.
extractDocumentData(content) ==
    LET parsedData == JSONParse(content)
    IN IF parsedData.ok THEN parsedData.v ELSE DefaultRecord

\* Mutant: the parse error is swallowed with no fallback value.
validateCompliance_NoFallback(content) ==
    LET validationResult == JSONParse(content)
    IN IF validationResult.ok THEN validationResult.v ELSE Undefined

validateCompliance(content) ==
    LET validationResult == JSONParse(content)
    IN IF validationResult.ok THEN validationResult.v ELSE FallbackValidation

\* ------------------------------------------------------------------------
\* Rule search
\* ------------------------------------------------------------------------

TopK == 5

\* The i-th document of a search response.
SearchDoc(i) ==
    Obj([pageContent |-> Str("rule text"),
         metadata |-> Obj([source |-> Num(i * Scale)])])

RECURSIVE Repeat(_, _)
Repeat(s, n) ==
    IF n = 0 THEN ""
    ELSE LET half == Repeat(s, n \div 2)
         IN half \o half \o (IF n % 2 = 1 THEN s ELSE "")

\* The i-th document of a search response when its page is a long one, of
\* 1200 characters.
LongDoc(i) ==
    Obj([pageContent |-> Str(Repeat("artigo 12 ", 120)),
         metadata |-> Obj([source |-> Num(i * Scale)])])

\* const docTexts: the pageContent of every document, whole.  The splitter
\* processTaxRuleSearch constructs is applied to none of them.
docTexts(docs) == [i \in 1..Len(docs) |-> Get(docs[i], "pageContent")]

\* A search response of n documents, in rank order.
SearchDocs(n) == [i \in 1..n |-> SearchDoc(i)]

Min(a, b) == IF a <= b THEN a ELSE b

\* Mutant: the similarity search returns every entry of the store.
processTaxRuleSearch_All(docs) == Arr(docs)

\* processTaxRuleSearch: every document is indexed whole, and the TopK most
\* similar entries are returned.
processTaxRuleSearch(docs) == Arr(SubSeq(docs, 1, Min(Len(docs), TopK)))

\* ------------------------------------------------------------------------
\* State
\* ------------------------------------------------------------------------

\* A local of processDocument that has not been assigned.
Unset == [t |-> "unset"]

VARIABLES
    pc,               \* per run: where processDocument is
    userId,           \* per run: messageContext.userId
    extractContent,   \* per run: the structuring service's answer
    documentData,     \* per run: const documentData
    docs,             \* per run: the search response inside searchTaxRules
    taxRules,         \* per run: const taxRules
    taxCalculation,   \* per run: const taxCalculation
    validateContent,  \* per run: the judgment service's answer
    complianceCheck,  \* per run: const complianceCheck
    result,           \* per run: the value processDocument returned
    failedIn,         \* per run: the call whose failure processDocument rethrew
    documents,        \* the rows of table documents, in insertion order
    inserts,          \* per run: its calls of storeDocumentInDb, each by how the insert stands
    abandoned,        \* per run: the caller has stopped waiting for processDocument
    cpc,              \* per call of calculateTaxesWithRules: "off", "ready", at
                      \* "calculator" (await calculator), at "regimes" (await
                      \* applySpecialRegimes) or "done"
    cdoc,             \* the DocumentRecord the calls are given
    cbase,            \* per call: what calculator returned or threw
    cfinal,           \* per call: what applySpecialRegimes returned or threw
    cres,             \* per call: what the call resolved with or rejected with
    cobj,             \* the record documentData refers to, as the calls have left it
    cqueue,           \* the calls whose continuation is queued, in queue order
    rpc,              \* generateTaxReport: where it is
    rdocs,            \* const docs: the rows of the month
    ri,               \* the row the loop is at
    rtotal,           \* let totalValue
    rtaxSum,          \* let taxSum
    report,           \* const report once built, or the error of the loop
    spc,              \* searchTaxRules: where it is
    sargs,            \* its arguments query, documentType, state, sector
    squery,           \* let searchQuery
    sdocs,            \* const docs
    sindex,           \* const docTexts: the texts given to the vector store
    sresults,         \* const results
    serror,           \* the error its catch block caught: the call that rejected
    users,            \* the rows of table users, in insertion order
    hpc,              \* per message handler: where it is
    hfrom,            \* per message handler: message.from
    huser,            \* per message handler: let user
    huserId,          \* per message handler: const userId, what createUser returned
    hfault            \* per message handler: a database call of its own was rejected
                      \* for another reason than the UNIQUE constraint

runVars ==
    <<pc, userId, extractContent, documentData, docs, taxRules, taxCalculation,
      validateContent, complianceCheck, result, failedIn, documents, inserts,
      abandoned>>

calcVars == <<cpc, cdoc, cbase, cfinal, cres, cobj, cqueue>>

\* What no step of processDocument touches.
reportVars == <<rpc, rdocs, ri, rtotal, rtaxSum, report>>

searchVars == <<spc, sargs, squery, sdocs, sindex, sresults, serror>>

userVars == <<users, hpc, hfrom, huser, huserId, hfault>>

restVars == <<calcVars, abandoned, reportVars, searchVars, userVars>>

vars ==
    <<pc, userId, extractContent, documentData, docs, taxRules, taxCalculation,
      validateContent, complianceCheck, result, failedIn, documents, inserts, abandoned,
      cpc, cdoc, cbase, cfinal, cres, cobj, cqueue, rpc, rdocs, ri, rtotal, rtaxSum, report,
      spc, sargs, squery, sdocs, sindex, sresults, serror,
      users, hpc, hfrom, huser, huserId, hfault>>

RunsIdle ==
    /\ pc = [r \in Runs |-> "Idle"]
    /\ userId = [r \in Runs |-> Undefined]
    /\ extractContent = [r \in Runs |-> ""]
    /\ documentData = [r \in Runs |-> Unset]
    /\ docs = [r \in Runs |-> <<>>]
    /\ taxRules = [r \in Runs |-> Unset]
    /\ taxCalculation = [r \in Runs |-> Unset]
    /\ validateContent = [r \in Runs |-> ""]
    /\ complianceCheck = [r \in Runs |-> Unset]
    /\ result = [r \in Runs |-> Unset]
    /\ failedIn = [r \in Runs |-> "none"]
    /\ documents = <<>>
    /\ inserts = [r \in Runs |-> <<>>]
    /\ abandoned = [r \in Runs |-> FALSE]

\* No call of calculateTaxesWithRules outside the runs.
CalcOff ==
    /\ cpc = [c \in Calls |-> "off"]
    /\ cdoc = Undefined
    /\ cbase = [c \in Calls |-> Undefined]
    /\ cfinal = [c \in Calls |-> Undefined]
    /\ cres = [c \in Calls |-> Undefined]
    /\ cobj = Undefined
    /\ cqueue = <<>>

\* No generateTaxReport.
ReportOff ==
    /\ rpc = "off"
    /\ rdocs = <<>>
    /\ ri = 0
    /\ rtotal = Undefined
    /\ rtaxSum = Undefined
    /\ report = Undefined

\* No searchTaxRules outside the runs.
SearchOff ==
    /\ spc = "off"
    /\ sargs = Undefined
    /\ squery = ""
    /\ sdocs = <<>>
    /\ sindex = <<>>
    /\ sresults = Undefined
    /\ serror = "none"

\* No message handler, and an empty table users.
HandlersIdle ==
    /\ users = <<>>
    /\ hpc = [h \in Handlers |-> "idle"]
    /\ hfrom = [h \in Handlers |-> ""]
    /\ huser = [h \in Handlers |-> Undefined]
    /\ huserId = [h \in Handlers |-> Undefined]
    /\ hfault = [h \in Handlers |-> FALSE]

Init ==
    /\ RunsIdle
    /\ CalcOff
    /\ ReportOff
    /\ SearchOff
    /\ HandlersIdle

\* ------------------------------------------------------------------------
\* processDocument
\* ------------------------------------------------------------------------

\* The catch block of processDocument: log and rethrow.
Fail(r, where) ==
    /\ pc' = [pc EXCEPT ![r] = "Failed"]
    /\ failedIn' = [failedIn EXCEPT ![r] = where]

\* processDocument is called, with or without a user in messageContext, and
\* awaits textract.detectDocumentText.
StartRun(r) ==
    /\ pc[r] = "Idle"
    /\ \E u \in {Undefined, Num(r * Scale)} : userId' = [userId EXCEPT ![r] = u]
    /\ pc' = [pc EXCEPT ![r] = "Ingesting"]
    /\ UNCHANGED <<extractContent, documentData, docs, taxRules, taxCalculation,
                   validateContent, complianceCheck, result, failedIn, documents, inserts>>
    /\ UNCHANGED restVars

\* Textract answers; extractDocumentData awaits the structuring service.
TextractReturns(r) ==
    /\ pc[r] = "Ingesting"
    /\ pc' = [pc EXCEPT ![r] = "Extracting"]
    /\ UNCHANGED <<userId, extractContent, documentData, docs, taxRules,
                   taxCalculation, validateContent, complianceCheck, result,
                   failedIn, documents, inserts>>
    /\ UNCHANGED restVars

TextractFails(r) ==
    /\ pc[r] = "Ingesting"
    /\ Fail(r, "textract")
    /\ UNCHANGED <<userId, extractContent, documentData, docs, taxRules,
                   taxCalculation, validateContent, complianceCheck, result,
                   documents, inserts>>
    /\ UNCHANGED restVars

\* Mutant: processDocument goes from the extraction straight to the rule
\* search and never calls storeDocumentInDb.
ExtractReturns_NoStore(r, content) ==
    /\ pc[r] = "Extracting"
    /\ extractContent' = [extractContent EXCEPT ![r] = content]
    /\ LET data == extractDocumentData(content)
       IN /\ documentData' = [documentData EXCEPT ![r] = data]
          /\ IF Nullish(data)
             THEN Fail(r, "processDocument")
             ELSE /\ pc' = [pc EXCEPT ![r] = "RetrievingRules"]
                  /\ UNCHANGED failedIn
    /\ UNCHANGED <<userId, docs, taxRules, taxCalculation, validateContent,
                   complianceCheck, result, documents, inserts>>
    /\ UNCHANGED restVars

\* The structuring service answers with content.  extractDocumentData
\* returns; with a user storeDocumentInDb builds its row and awaits db.run,
\* without one searchTaxRules awaits the search.  A null record throws when
\* its documentType is read: inside storeDocumentInDb that is caught and
\* logged, in the query template of processDocument it ends the run.
ExtractReturns(r, content) ==
    /\ pc[r] = "Extracting"
    /\ extractContent' = [extractContent EXCEPT ![r] = content]
    /\ LET data == extractDocumentData(content)
       IN /\ documentData' = [documentData EXCEPT ![r] = data]
          /\ IF Nullish(data)
             THEN /\ Fail(r, "processDocument")
                  /\ inserts' = [inserts EXCEPT ![r] =
                         IF Truthy(userId[r]) THEN Append(@, "rejected") ELSE @]
             ELSE /\ pc' = [pc EXCEPT ![r] =
                         IF Truthy(userId[r]) THEN "Storing" ELSE "RetrievingRules"]
                  /\ inserts' = [inserts EXCEPT ![r] =
                         IF Truthy(userId[r]) THEN Append(@, "pending") ELSE @]
                  /\ UNCHANGED failedIn
    /\ UNCHANGED <<userId, docs, taxRules, taxCalculation, validateContent,
                   complianceCheck, result, documents>>
    /\ UNCHANGED restVars

\* The structuring call itself raises.
ExtractFails(r) ==
    /\ pc[r] = "Extracting"
    /\ Fail(r, "extractDocumentData")
    /\ UNCHANGED <<userId, extractContent, documentData, docs, taxRules,
                   taxCalculation, validateContent, complianceCheck, result,
                   documents, inserts>>
    /\ UNCHANGED restVars

\* The row storeDocumentInDb inserts.
DocumentRow(user, data) ==
    [userId |-> user,
     documentType |-> Get(data, "documentType"),
     totalValue |-> Or(Get(data, "totalValue"), Num(0)),
     state |-> Or(Get(data, "state"), Str("")),
     municipality |-> Or(Get(data, "municipality"), Str("")),
     rawData |-> JSONStringify(data)]

\* db.run resolves: the row is in the table.
StoreReturns(r) ==
    /\ pc[r] = "Storing"
    /\ documents' = Append(documents, DocumentRow(userId[r], documentData[r]))
    /\ inserts' = [inserts EXCEPT ![r] = [@ EXCEPT ![Len(@)] = "resolved"]]
    /\ pc' = [pc EXCEPT ![r] = "RetrievingRules"]
    /\ UNCHANGED <<userId, extractContent, documentData, docs, taxRules,
                   taxCalculation, validateContent, complianceCheck, result,
                   failedIn>>
    /\ UNCHANGED restVars

\* Mutant: a failed insert makes the run extract the document again.
StoreFails_Retry(r) ==
    /\ pc[r] = "Storing"
    /\ pc' = [pc EXCEPT ![r] = "Extracting"]
    /\ inserts' = [inserts EXCEPT ![r] = [@ EXCEPT ![Len(@)] = "rejected"]]
    /\ UNCHANGED <<userId, extractContent, documentData, docs, taxRules,
                   taxCalculation, validateContent, complianceCheck, result,
                   failedIn, documents>>
    /\ UNCHANGED restVars

\* Mutant: storeDocumentInDb lets the rejection of db.run through.
StoreFails_Rethrows(r) ==
    /\ pc[r] = "Storing"
    /\ Fail(r, "storeDocumentInDb")
    /\ inserts' = [inserts EXCEPT ![r] = [@ EXCEPT ![Len(@)] = "rejected"]]
    /\ UNCHANGED <<userId, extractContent, documentData, docs, taxRules,
                   taxCalculation, validateContent, complianceCheck, result,
                   documents>>
    /\ UNCHANGED restVars

\* db.run rejects: storeDocumentInDb logs the error and returns.
StoreFails(r) ==
    /\ pc[r] = "Storing"
    /\ pc' = [pc EXCEPT ![r] = "RetrievingRules"]
    /\ inserts' = [inserts EXCEPT ![r] = [@ EXCEPT ![Len(@)] = "rejected"]]
    /\ UNCHANGED <<userId, extractContent, documentData, docs, taxRules,
                   taxCalculation, validateContent, complianceCheck, result,
                   failedIn, documents>>
    /\ UNCHANGED restVars

\* loader.call resolves with n documents; processTaxRuleSearch awaits the
\* embedding of the texts and the similarity search.
SearchReturns(r, n) ==
    /\ pc[r] = "RetrievingRules"
    /\ docs' = [docs EXCEPT ![r] = SearchDocs(n)]
    /\ pc' = [pc EXCEPT ![r] = "Ranking"]
    /\ UNCHANGED <<userId, extractContent, documentData, taxRules,
                   taxCalculation, validateContent, complianceCheck, result,
                   failedIn, documents, inserts>>
    /\ UNCHANGED restVars

\* loader.call rejects: searchTaxRules logs and rethrows, and so does
\* processDocument.
SearchFails(r) ==
    /\ pc[r] = "RetrievingRules"
    /\ Fail(r, "searchTaxRules")
    /\ UNCHANGED <<userId, extractContent, documentData, docs, taxRules,
                   taxCalculation, validateContent, complianceCheck, result,
                   documents, inserts>>
    /\ UNCHANGED restVars

\* The similarity search resolves; searchTaxRules returns its results.
RankReturns(r) ==
    /\ pc[r] = "Ranking"
    /\ taxRules' = [taxRules EXCEPT ![r] = processTaxRuleSearch(docs[r])]
    /\ pc' = [pc EXCEPT ![r] = "Calculating"]
    /\ UNCHANGED <<userId, extractContent, documentData, docs, taxCalculation,
                   validateContent, complianceCheck, result, failedIn, documents, inserts>>
    /\ UNCHANGED restVars

\* The embedding call rejects: searchTaxRules logs and rethrows, and so does
\* processDocument.
RankFails(r) ==
    /\ pc[r] = "Ranking"
    /\ Fail(r, "searchTaxRules")
    /\ UNCHANGED <<userId, extractContent, documentData, docs, taxRules,
                   taxCalculation, validateContent, complianceCheck, result,
                   documents, inserts>>
    /\ UNCHANGED restVars

\* calculateTaxesWithRules runs to its end (it awaits no external call);
\* then validateCompliance awaits the judgment service.
Calculate(r) ==
    /\ pc[r] = "Calculating"
    /\ LET calc == calculateTaxesWithRules(documentData[r], taxRules[r])
       IN IF calc.ok
          THEN /\ taxCalculation' = [taxCalculation EXCEPT ![r] = calc.v]
               /\ pc' = [pc EXCEPT ![r] = "Validating"]
               /\ UNCHANGED failedIn
          ELSE /\ Fail(r, "calculateTaxesWithRules")
               /\ UNCHANGED taxCalculation
    /\ documentData' = [documentData EXCEPT ![r] =
           documentDataAfter(documentData[r], taxRules[r])]
    /\ UNCHANGED <<userId, extractContent, docs, taxRules,
                   validateContent, complianceCheck, result, documents, inserts>>
    /\ UNCHANGED restVars

\* Mutant: taxRules is one variable of the module, so the result carries the
\* rules another run has found.
ValidateReturns_SharedRules(r, content) ==
    /\ pc[r] = "Validating"
    /\ validateContent' = [validateContent EXCEPT ![r] = content]
    /\ LET check == validateCompliance(content)
           q == CHOOSE x \in Runs : x # r
       IN /\ complianceCheck' = [complianceCheck EXCEPT ![r] = check]
          /\ result' = [result EXCEPT ![r] =
                 Obj([documentData |-> documentData[r],
                      taxCalculation |-> taxCalculation[r],
                      complianceCheck |-> check,
                      applicableRules |->
                          IF taxRules[q] # Unset THEN taxRules[q] ELSE taxRules[r]])]
    /\ pc' = [pc EXCEPT ![r] = "Done"]
    /\ UNCHANGED <<userId, extractContent, documentData, docs, taxRules,
                   taxCalculation, failedIn, documents, inserts>>
    /\ UNCHANGED restVars

\* The judgment service answers with content; validateCompliance returns and
\* processDocument returns its result object.
ValidateReturns(r, content) ==
    /\ pc[r] = "Validating"
    /\ validateContent' = [validateContent EXCEPT ![r] = content]
    /\ LET check == validateCompliance(content)
       IN /\ complianceCheck' = [complianceCheck EXCEPT ![r] = check]
          /\ result' = [result EXCEPT ![r] =
                 Obj([documentData |-> documentData[r],
                      taxCalculation |-> taxCalculation[r],
                      complianceCheck |-> check,
                      applicableRules |-> taxRules[r]])]
    /\ pc' = [pc EXCEPT ![r] = "Done"]
    /\ UNCHANGED <<userId, extractContent, documentData, docs, taxRules,
                   taxCalculation, failedIn, documents, inserts>>
    /\ UNCHANGED restVars

\* Mutant: a failed judgment call is caught and what was built so far is
\* returned.
ValidateFails_Partial(r) ==
    /\ pc[r] = "Validating"
    /\ result' = [result EXCEPT ![r] =
           Obj([documentData |-> documentData[r],
                taxCalculation |-> taxCalculation[r],
                applicableRules |-> taxRules[r]])]
    /\ pc' = [pc EXCEPT ![r] = "Done"]
    /\ UNCHANGED <<userId, extractContent, documentData, docs, taxRules,
                   taxCalculation, validateContent, complianceCheck, failedIn,
                   documents, inserts>>
    /\ UNCHANGED restVars

\* The judgment call itself raises.
ValidateFails(r) ==
    /\ pc[r] = "Validating"
    /\ Fail(r, "validateCompliance")
    /\ UNCHANGED <<userId, extractContent, documentData, docs, taxRules,
                   taxCalculation, validateContent, complianceCheck, result,
                   documents, inserts>>
    /\ UNCHANGED restVars

Next ==
    \E r \in Runs :
        \/ StartRun(r)
        \/ TextractReturns(r)
        \/ TextractFails(r)
        \/ \E content \in StructuringTexts : ExtractReturns(r, content)
        \/ ExtractFails(r)
        \/ StoreReturns(r)
        \/ StoreFails(r)
        \/ \E n \in 0..MaxDocs : SearchReturns(r, n)
        \/ SearchFails(r)
        \/ RankReturns(r)
        \/ RankFails(r)
        \/ Calculate(r)
        \/ \E content \in JudgmentTexts : ValidateReturns(r, content)
        \/ ValidateFails(r)

Spec == Init /\ [][Next]_vars

\* ------------------------------------------------------------------------
\* processDocument under a caller that may give up
\* ------------------------------------------------------------------------

\* The caller of a run in progress stops waiting for it (a timeout of its
\* own).  processDocument takes no cancellation signal and tests none, so
\* nothing of the run changes.
Abandon(r) ==
    /\ pc[r] \notin {"Idle", "Done", "Failed"}
    /\ ~abandoned[r]
    /\ abandoned' = [abandoned EXCEPT ![r] = TRUE]
    /\ UNCHANGED <<pc, userId, extractContent, documentData, docs, taxRules,
                   taxCalculation, validateContent, complianceCheck, result,
                   failedIn, documents, inserts>>
    /\ UNCHANGED <<calcVars, reportVars, searchVars, userVars>>

NextAbandon == Next \/ \E r \in Runs : Abandon(r)

SpecAbandon == Init /\ [][NextAbandon]_vars

\* ------------------------------------------------------------------------
\* The calculators on their own: calculateTaxesWithRules over bounded records
\* ------------------------------------------------------------------------

DocumentTypes ==
    {Undefined, Str("NFE"), Str("NFSE"), Str("NFCE"), Str("CTE"), Str("NFSe"),
     Str("XYZ"), Str("constructor"), Str("toString"), Str("__proto__")}

TotalValues == {Undefined, Null, Str("abc")} \cup {Num(k * BaseStep) : k \in 0..MaxBase}

States == {Undefined, Str("SP"), Str("RJ"), Str("MG")}

Operations == {Undefined, Str("VENDA"), Str("COMPRA")}

Municipalities == {Undefined, Str("SÃ£o Paulo"), Str("São Paulo"), Str("Campinas")}

TaxInfos ==
    {Undefined,
     EmptyObj,
     MkObj([ipiCategory |-> Str("basic"), regime |-> Undefined]),
     MkObj([ipiCategory |-> Undefined, regime |-> Str("Simples Nacional")]),
     MkObj([ipiCategory |-> Str("basic"), regime |-> Str("Simples Nacional")])}

\* Records that carry a taxes field of their own.
TaxedDocs ==
    {MkObj([documentType |-> dt, totalValue |-> tv,
            taxes |-> Obj([ICMS |-> Num(100 * Scale)]), taxInfo |-> ti]) :
        dt \in DocumentTypes, tv \in TotalValues, ti \in TaxInfos}

CalcDocs ==
    {MkObj([documentType |-> dt, totalValue |-> tv, state |-> st,
            municipality |-> mu, operationType |-> op, taxInfo |-> ti]) :
        dt \in DocumentTypes, tv \in TotalValues, st \in States,
        mu \in Municipalities, op \in Operations, ti \in TaxInfos}
    \cup TaxedDocs

CalcInit ==
    /\ RunsIdle
    /\ cpc = [c \in Calls |-> "ready"]
    /\ cdoc \in CalcDocs
    /\ cbase = [c \in Calls |-> Undefined]
    /\ cfinal = [c \in Calls |-> Undefined]
    /\ cres = [c \in Calls |-> Undefined]
    /\ cobj = cdoc
    /\ cqueue = <<>>
    /\ ReportOff
    /\ SearchOff
    /\ HandlersIdle

\* calculateTaxesWithRules(documentData, []) is called, the first call before
\* the second: it runs calculator and, when that returned, suspends at await
\* with its continuation queued; when calculator threw, the call has
\* rejected.
CalcCall(c) ==
    /\ cpc[c] = "ready"
    /\ c = 2 => cpc[1] # "ready"
    /\ LET baseCalculation == calculator(cobj, Arr(<<>>))
       IN /\ cbase' = [cbase EXCEPT ![c] = baseCalculation]
          /\ IF baseCalculation.ok
             THEN /\ cpc' = [cpc EXCEPT ![c] = "calculator"]
                  /\ cqueue' = Append(cqueue, c)
                  /\ cres' = cres
             ELSE /\ cpc' = [cpc EXCEPT ![c] = "done"]
                  /\ cqueue' = cqueue
                  /\ cres' = [cres EXCEPT ![c] = baseCalculation]
    /\ UNCHANGED <<cdoc, cfinal, cobj>>
    /\ UNCHANGED <<runVars, reportVars, searchVars, userVars>>

\* The call at the head of the queue resumes after await calculator: it runs
\* applySpecialRegimes, which halves taxes.ICMS in the object baseCalculation
\* holds (the record's own when baseCalculation is the record), and suspends
\* at the second await with its continuation queued last.
CalculatorReturns(c) ==
    /\ cqueue # <<>> /\ Head(cqueue) = c
    /\ cpc[c] = "calculator"
    /\ LET baseCalculation == IF SharesRecord(cobj) THEN cobj ELSE cbase[c].v
       IN cfinal' = [cfinal EXCEPT ![c] =
                        applySpecialRegimes(baseCalculation, cobj, Arr(<<>>))]
    /\ cobj' = documentDataAfter(cobj, Arr(<<>>))
    /\ cpc' = [cpc EXCEPT ![c] = "regimes"]
    /\ cqueue' = Append(Tail(cqueue), c)
    /\ UNCHANGED <<cdoc, cbase, cres>>
    /\ UNCHANGED <<runVars, reportVars, searchVars, userVars>>

\* The call at the head of the queue resumes after await applySpecialRegimes
\* and returns finalCalculation or rethrows: the call resolves with the
\* object as it is then, its taxes being the record's taxes when
\* baseCalculation was the record.
RegimesReturns(c) ==
    /\ cqueue # <<>> /\ Head(cqueue) = c
    /\ cpc[c] = "regimes"
    /\ cres' = [cres EXCEPT ![c] =
                   IF cfinal[c].ok /\ SharesRecord(cobj) THEN Return(cobj) ELSE cfinal[c]]
    /\ cpc' = [cpc EXCEPT ![c] = "done"]
    /\ cqueue' = Tail(cqueue)
    /\ UNCHANGED <<cdoc, cbase, cfinal, cobj>>
    /\ UNCHANGED <<runVars, reportVars, searchVars, userVars>>

CalcNext ==
    \/ \E c \in Calls : CalcCall(c)
    \/ \E c \in Calls : CalculatorReturns(c)
    \/ \E c \in Calls : RegimesReturns(c)

SpecCalc == CalcInit /\ [][CalcNext]_vars

\* ------------------------------------------------------------------------
\* generateTaxReport
\* ------------------------------------------------------------------------

\* a + b on the operands the report meets: numbers, and NaN for an amount
\* that is no number.
Plus(a, b) ==
    IF a.t = "number" /\ b.t = "number" THEN Num(a.n + b.n) ELSE NaN

\* The user the report is for: a row of table users, as createUser leaves it.
ReportUser == [id |-> Num(Scale), companyName |-> Null]

\* The records processDocument can have passed to storeDocumentInDb.
StoredRecords == {extractDocumentData(content) : content \in StructuringTexts} \ {Null}

\* The rows getMonthlyTaxData can give: up to MaxBlobs rows of the user.
MonthRows ==
    UNION {[1..n -> {DocumentRow(ReportUser.id, d) : d \in StoredRecords}] :
              n \in 0..MaxBlobs}

\* let taxSum at its declaration.
InitialTaxSum ==
    [k \in {"ICMS", "ISS", "PIS", "COFINS", "IPI"} |-> Num(0)]

\* Object.entries(docCalculation.taxes || {}) as a function from tax to val;
\* a docCalculation that is no object has no taxes.
TaxEntries(docCalculation) ==
    LET taxes == Or(Get(docCalculation, "taxes"), EmptyObj)
    IN IF taxes.t = "object" THEN taxes.f ELSE EmptyObj.f

\* taxSum after the inner loop over the entries of one calculation.
AddTaxes(taxSum, entries) ==
    [tax \in DOMAIN taxSum \cup DOMAIN entries |->
        IF tax \in DOMAIN entries
        THEN Plus(IF tax \in DOMAIN taxSum /\ Truthy(taxSum[tax])
                  THEN taxSum[tax]
                  ELSE Num(0),
                  entries[tax])
        ELSE taxSum[tax]]

\* const report (month and year, read from the clock, are left out).
ReportOf(rows, totalValue, taxSum) ==
    Obj([userId |-> ReportUser.id,
         companyName |-> ReportUser.companyName,
         totalDocuments |-> Num(Len(rows) * Scale),
         totalValue |-> totalValue,
         taxes |-> Obj(taxSum)])

\* generateTaxReport has been called and awaits getMonthlyTaxData.
ReportInit ==
    /\ RunsIdle
    /\ CalcOff
    /\ SearchOff
    /\ HandlersIdle
    /\ rpc = "fetching"
    /\ rdocs = <<>>
    /\ ri = 0
    /\ rtotal = Undefined
    /\ rtaxSum = Undefined
    /\ report = Undefined

\* The loop is at row i with the sums so far: on to that row, or, past the
\* last row, the report is built and storeMonthlyReport awaits db.run.
LoopAt(rows, i, totalValue, taxSum) ==
    /\ ri' = i
    /\ rtotal' = totalValue
    /\ rtaxSum' = taxSum
    /\ IF i <= Len(rows)
       THEN rpc' = "summing" /\ UNCHANGED report
       ELSE rpc' = "storing" /\ report' = Return(ReportOf(rows, totalValue, taxSum))

\* The catch block of generateTaxReport: log, and reply with an apology.
ReportFails ==
    /\ rpc' = "failed"
    /\ UNCHANGED <<rdocs, ri, rtotal, rtaxSum>>

\* db.all resolves with the rows of the month.
GetMonthlyReturns(rows) ==
    /\ rpc = "fetching"
    /\ rdocs' = rows
    /\ LoopAt(rows, 1, Num(0), InitialTaxSum)
    /\ UNCHANGED <<runVars, calcVars, searchVars, userVars>>

GetMonthlyFails ==
    /\ rpc = "fetching"
    /\ ReportFails
    /\ UNCHANGED report
    /\ UNCHANGED <<runVars, calcVars, searchVars, userVars>>

\* One turn of the loop: parse the row, calculate, add.  An error of
\* JSON.parse or of calculateTaxesWithRules ends generateTaxReport in its
\* catch block.
SumRow ==
    /\ rpc = "summing"
    /\ LET docData == JSONParse(rdocs[ri].rawData)
           docCalculation ==
               IF docData.ok
               THEN calculateTaxesWithRules(docData.v, Arr(<<>>))
               ELSE docData
       IN IF docCalculation.ok
          THEN /\ LoopAt(rdocs, ri + 1,
                         Plus(rtotal, Or(Get(docData.v, "totalValue"), Num(0))),
                         AddTaxes(rtaxSum, TaxEntries(docCalculation.v)))
               /\ UNCHANGED rdocs
          ELSE /\ ReportFails
               /\ report' = docCalculation
    /\ UNCHANGED <<runVars, calcVars, searchVars, userVars>>

\* The insert into monthly_reports resolves; generatePDFReport and
\* message.reply follow.
StoreReportReturns ==
    /\ rpc = "storing"
    /\ rpc' = "sending"
    /\ UNCHANGED <<rdocs, ri, rtotal, rtaxSum, report>>
    /\ UNCHANGED <<runVars, calcVars, searchVars, userVars>>

StoreReportFails ==
    /\ rpc = "storing"
    /\ ReportFails
    /\ UNCHANGED report
    /\ UNCHANGED <<runVars, calcVars, searchVars, userVars>>

\* The PDF is made and the reply is sent.
SendReturns ==
    /\ rpc = "sending"
    /\ rpc' = "done"
    /\ UNCHANGED <<rdocs, ri, rtotal, rtaxSum, report>>
    /\ UNCHANGED <<runVars, calcVars, searchVars, userVars>>

SendFails ==
    /\ rpc = "sending"
    /\ ReportFails
    /\ UNCHANGED report
    /\ UNCHANGED <<runVars, calcVars, searchVars, userVars>>

ReportNext ==
    \/ \E rows \in MonthRows : GetMonthlyReturns(rows)
    \/ GetMonthlyFails
    \/ SumRow
    \/ StoreReportReturns
    \/ StoreReportFails
    \/ SendReturns
    \/ SendFails

SpecReport == ReportInit /\ [][ReportNext]_vars

\* ------------------------------------------------------------------------
\* searchTaxRules on its own (the command regras, and processDocument)
\* ------------------------------------------------------------------------

\* The arguments of the calls: query alone, or query and documentType, and
\* the optional state and sector.
SearchArgs ==
    [query : {"", "icms", "NFE VENDA SP"},
     documentType : {Undefined, Str("NFSE"), Null},
     state : {Null, Str("SP")},
     sector : {Null, Str("varejo")}]

\* let searchQuery when loader.call is made; documentType defaults to 'NFE'.
SearchQuery(args) ==
    LET documentType ==
            IF args.documentType = Undefined THEN Str("NFE") ELSE args.documentType
    IN args.query \o " legislaÃ§Ã£o tributÃ¡ria brasil " \o PropertyKey(documentType)
       \o (IF Truthy(args.state) THEN " " \o args.state.s ELSE "")
       \o (IF Truthy(args.sector) THEN " setor " \o args.sector.s ELSE "")
       \o " site:.gov.br OR site:legisweb.com.br OR site:confaz.fazenda.gov.br"

\* What loader.call can resolve with: up to MaxSearchDocs documents in rank
\* order, each with a short or a long page.
SearchResponses ==
    UNION {{[i \in 1..n |-> IF long[i] THEN LongDoc(i) ELSE SearchDoc(i)] :
               long \in [1..n -> BOOLEAN]} :
           n \in 0..MaxSearchDocs}

\* searchTaxRules has been called and awaits loader.call(searchQuery).
SearchInit ==
    /\ RunsIdle
    /\ CalcOff
    /\ ReportOff
    /\ HandlersIdle
    /\ spc = "loading"
    /\ sargs \in SearchArgs
    /\ squery = SearchQuery(sargs)
    /\ sdocs = <<>>
    /\ sindex = <<>>
    /\ sresults = Undefined
    /\ serror = "none"

\* loader.call resolves with n documents; processTaxRuleSearch awaits the
\* embedding of their texts and the similarity search.
LoaderReturns(found) ==
    /\ spc = "loading"
    /\ sdocs' = found
    /\ sindex' = docTexts(found)
    /\ spc' = "ranking"
    /\ UNCHANGED <<sargs, squery, sresults, serror>>
    /\ UNCHANGED <<runVars, calcVars, reportVars, userVars>>

\* Mutant: the catch block logs the error and returns an empty list.
LoaderFails_Swallowed ==
    /\ spc = "loading"
    /\ serror' = "loader.call"
    /\ sresults' = Arr(<<>>)
    /\ spc' = "returned"
    /\ UNCHANGED <<sargs, squery, sdocs, sindex>>
    /\ UNCHANGED <<runVars, calcVars, reportVars, userVars>>

\* loader.call rejects: the error is logged and rethrown.
LoaderFails ==
    /\ spc = "loading"
    /\ serror' = "loader.call"
    /\ spc' = "failed"
    /\ UNCHANGED <<sargs, squery, sdocs, sindex, sresults>>
    /\ UNCHANGED <<runVars, calcVars, reportVars, userVars>>

\* The similarity search resolves; searchTaxRules returns results.
SimilarityReturns ==
    /\ spc = "ranking"
    /\ sresults' = processTaxRuleSearch(sdocs)
    /\ spc' = "returned"
    /\ UNCHANGED <<sargs, squery, sdocs, sindex, serror>>
    /\ UNCHANGED <<runVars, calcVars, reportVars, userVars>>

\* The embedding call rejects: the error is logged and rethrown.
SimilarityFails ==
    /\ spc = "ranking"
    /\ serror' = "processTaxRuleSearch"
    /\ spc' = "failed"
    /\ UNCHANGED <<sargs, squery, sdocs, sindex, sresults>>
    /\ UNCHANGED <<runVars, calcVars, reportVars, userVars>>

SearchNext ==
    \/ \E found \in SearchResponses : LoaderReturns(found)
    \/ LoaderFails
    \/ SimilarityReturns
    \/ SimilarityFails

SpecSearch == SearchInit /\ [][SearchNext]_vars

\* ------------------------------------------------------------------------
\* client.on('message'): the registration of a first contact
\* ------------------------------------------------------------------------

\* message.from of the messages that arrive.
WhatsAppIds == {"5511999990001@c.us", "5511999990002@c.us"}

\* The row an INSERT INTO users (whatsappId, cnpj, companyName) leaves: id is
\* the AUTOINCREMENT key, one past the largest id the table has held (no row
\* is ever deleted).
UserRow(id, whatsappId) ==
    Obj([k \in {"id", "whatsappId", "cnpj", "companyName"} |->
            CASE k = "id" -> Num(id * Scale)
              [] k = "whatsappId" -> Str(whatsappId)
              [] OTHER -> Null])

\* SELECT * FROM users WHERE whatsappId = ?: db.get resolves with the first
\* matching row, or with undefined.
SelectUser(rows, whatsappId) ==
    LET match == {i \in 1..Len(rows) : Get(rows[i], "whatsappId") = Str(whatsappId)}
    IN IF match = {} THEN Undefined
       ELSE rows[CHOOSE i \in match : \A j \in match : i <= j]

\* getUserByWhatsAppId when db.get resolves: return row || null.
getUserByWhatsAppId(rows, whatsappId) == Or(SelectUser(rows, whatsappId), Null)

\* A message arrives and its handler awaits the first getUserByWhatsAppId.
MessageArrives(h, from) ==
    /\ hpc[h] = "idle"
    /\ hpc' = [hpc EXCEPT ![h] = "lookup"]
    /\ hfrom' = [hfrom EXCEPT ![h] = from]
    /\ UNCHANGED <<users, huser, huserId, hfault>>
    /\ UNCHANGED <<runVars, calcVars, reportVars, searchVars>>

\* The first db.get resolves: a known user goes to the dispatch, an unknown
\* one to createUser, which awaits db.run.
GetReturns(h) ==
    /\ hpc[h] = "lookup"
    /\ huser' = [huser EXCEPT ![h] = getUserByWhatsAppId(users, hfrom[h])]
    /\ hpc' = [hpc EXCEPT ![h] = IF Truthy(huser'[h]) THEN "dispatched" ELSE "creating"]
    /\ UNCHANGED <<users, hfrom, huserId, hfault>>
    /\ UNCHANGED <<runVars, calcVars, reportVars, searchVars>>

\* The first db.get rejects: getUserByWhatsAppId logs and returns null, and
\* the handler goes on to createUser.
GetFails(h) ==
    /\ hpc[h] = "lookup"
    /\ huser' = [huser EXCEPT ![h] = Null]
    /\ hfault' = [hfault EXCEPT ![h] = TRUE]
    /\ hpc' = [hpc EXCEPT ![h] = "creating"]
    /\ UNCHANGED <<users, hfrom, huserId>>
    /\ UNCHANGED <<runVars, calcVars, reportVars, searchVars>>

\* createUser's db.run resolves: whatsappId is UNIQUE, so the table held no
\* row with it; the row is added and the handler awaits the second
\* getUserByWhatsAppId with the lastID in userId.
CreateUserReturns(h) ==
    /\ hpc[h] = "creating"
    /\ SelectUser(users, hfrom[h]) = Undefined
    /\ users' = Append(users, UserRow(Len(users) + 1, hfrom[h]))
    /\ huserId' = [huserId EXCEPT ![h] = Num((Len(users) + 1) * Scale)]
    /\ hpc' = [hpc EXCEPT ![h] = "relookup"]
    /\ UNCHANGED <<hfrom, huser, hfault>>
    /\ UNCHANGED <<runVars, calcVars, reportVars, searchVars>>

\* createUser's db.run rejects on the UNIQUE constraint, another handler
\* having inserted the row meanwhile: createUser logs and returns null, and
\* the handler goes on to the second getUserByWhatsAppId.
CreateUserRejected(h) ==
    /\ hpc[h] = "creating"
    /\ SelectUser(users, hfrom[h]) # Undefined
    /\ huserId' = [huserId EXCEPT ![h] = Null]
    /\ hpc' = [hpc EXCEPT ![h] = "relookup"]
    /\ UNCHANGED <<users, hfrom, huser, hfault>>
    /\ UNCHANGED <<runVars, calcVars, reportVars, searchVars>>

\* createUser's db.run rejects for another reason (the database is busy or
\* unreachable): the same catch block, no row.
CreateUserFails(h) ==
    /\ hpc[h] = "creating"
    /\ huserId' = [huserId EXCEPT ![h] = Null]
    /\ hfault' = [hfault EXCEPT ![h] = TRUE]
    /\ hpc' = [hpc EXCEPT ![h] = "relookup"]
    /\ UNCHANGED <<users, hfrom, huser>>
    /\ UNCHANGED <<runVars, calcVars, reportVars, searchVars>>

\* The second db.get resolves: user is the row or null, and the message is
\* dispatched with it.
GetAgainReturns(h) ==
    /\ hpc[h] = "relookup"
    /\ huser' = [huser EXCEPT ![h] = getUserByWhatsAppId(users, hfrom[h])]
    /\ hpc' = [hpc EXCEPT ![h] = "dispatched"]
    /\ UNCHANGED <<users, hfrom, huserId, hfault>>
    /\ UNCHANGED <<runVars, calcVars, reportVars, searchVars>>

\* The second db.get rejects: user is null, and the message is dispatched
\* with it.
GetAgainFails(h) ==
    /\ hpc[h] = "relookup"
    /\ huser' = [huser EXCEPT ![h] = Null]
    /\ hfault' = [hfault EXCEPT ![h] = TRUE]
    /\ hpc' = [hpc EXCEPT ![h] = "dispatched"]
    /\ UNCHANGED <<users, hfrom, huserId>>
    /\ UNCHANGED <<runVars, calcVars, reportVars, searchVars>>

UsersNext ==
    \/ \E h \in Handlers, from \in WhatsAppIds : MessageArrives(h, from)
    \/ \E h \in Handlers : GetReturns(h)
    \/ \E h \in Handlers : GetFails(h)
    \/ \E h \in Handlers : CreateUserReturns(h)
    \/ \E h \in Handlers : CreateUserRejected(h)
    \/ \E h \in Handlers : CreateUserFails(h)
    \/ \E h \in Handlers : GetAgainReturns(h)
    \/ \E h \in Handlers : GetAgainFails(h)

SpecUsers == Init /\ [][UsersNext]_vars

\* ------------------------------------------------------------------------
\* Properties
\* ------------------------------------------------------------------------

FourTypes == {"NFE", "NFSE", "NFCE", "CTE"}

\* C1: when the rule search fails, processDocument does not end in failure:
\* it completes with applicableRules = [] and a populated taxCalculation.
C1_SearchFailureDegrades ==
    \A r \in Runs :
        failedIn[r] = "searchTaxRules" =>
            /\ pc[r] # "Failed"
            /\ pc[r] = "Done" =>
                  /\ Get(result[r], "applicableRules") = Arr(<<>>)
                  /\ Get(result[r], "taxCalculation").t = "object"

\* C2: once extractDocumentData has returned a record, no later failure ends
\* the run in Failed: a failed run has no DocumentRecord.
C2_OnlyIngestionIsFatal ==
    \A r \in Runs : pc[r] = "Failed" => documentData[r] = Unset

\* The canonical default record as the specification gives it.
CanonicalDefaultRecord ==
    Obj([documentType |-> Str("NFE"),
         totalValue |-> Num(0),
         state |-> Str("SP"),
         municipality |-> Str("São Paulo"),
         operationType |-> Str("VENDA"),
         taxInfo |-> EmptyObj])

\* C3: on a response text that does not parse, extractDocumentData returns
\* exactly the canonical default record (NFE, 0, SP, São Paulo, VENDA, {}).
C3_UnparseableGivesCanonicalDefault ==
    \A r \in Runs :
        (documentData[r] # Unset /\ ~JSONParse(extractContent[r]).ok) =>
            documentData[r] = CanonicalDefaultRecord

WellFormedDocumentRecord(d) ==
    /\ d.t = "object"
    /\ Get(d, "documentType").t = "string"
    /\ Get(d, "documentType").s \in FourTypes
    /\ Get(d, "totalValue").t = "number"
    /\ Get(d, "totalValue").n >= 0
    /\ \A k \in {"state", "municipality", "operationType", "taxInfo"} :
          Get(d, k) # Undefined

\* C4: whatever the structuring service answers, the value extractDocumentData
\* returns is a well-formed DocumentRecord.
C4_ExtractedRecordWellFormed ==
    \A r \in Runs :
        documentData[r] # Unset => WellFormedDocumentRecord(documentData[r])

\* C5 as stated: on a response text that does not parse, validateCompliance
\* returns status "warning", the one issue "could not parse upstream
\* response" and no suggestions.
C5_FallbackAsStated ==
    \A r \in Runs :
        (complianceCheck[r] # Unset /\ ~JSONParse(validateContent[r]).ok) =>
            complianceCheck[r] =
                Obj([status |-> Str("warning"),
                     issues |-> Arr(<<Str("could not parse upstream response")>>),
                     suggestions |-> Arr(<<>>)])

\* C5 amended: on a response text that does not parse, validateCompliance
\* does not raise (the run reaches Done) and returns status "warning",
\* exactly one issue, "Could not parse GPT response", and no suggestions.
C5_FallbackOnParseError ==
    \A r \in Runs :
        (validateContent[r] # "" /\ ~JSONParse(validateContent[r]).ok) =>
            /\ pc[r] = "Done"
            /\ complianceCheck[r] =
                Obj([status |-> Str("warning"),
                     issues |-> Arr(<<Str("Could not parse GPT response")>>),
                     suggestions |-> Arr(<<>>)])
            /\ Get(result[r], "complianceCheck") = complianceCheck[r]

C5_Witness ==
    \E r \in Runs :
        /\ pc[r] = "Done"
        /\ validateContent[r] = "The document looks compliant."
        /\ Get(complianceCheck[r], "status") = Str("warning")

WellFormedComplianceResult(c) ==
    /\ c.t = "object"
    /\ Get(c, "status") \in {Str("ok"), Str("warning"), Str("error")}
    /\ Get(c, "issues").t = "array"
    /\ Get(c, "suggestions").t = "array"

\* C6: every ComplianceResult validateCompliance returns has a status among
\* ok, warning, error, and issues and suggestions that are lists.
C6_ComplianceResultWellFormed ==
    \A r \in Runs :
        complianceCheck[r] # Unset => WellFormedComplianceResult(complianceCheck[r])

ResultFields == {"documentData", "taxCalculation", "complianceCheck", "applicableRules"}

\* C7: processDocument never returns a partly built result: a run that
\* returned has all four of documentData, taxCalculation, complianceCheck
\* and applicableRules assigned, and a run that failed returned nothing.
C7_NoPartialResult ==
    \A r \in Runs :
        /\ result[r] # Unset =>
              /\ pc[r] = "Done"
              /\ result[r].t = "object"
              /\ DOMAIN result[r].f = ResultFields
              /\ \A k \in ResultFields : result[r].f[k] \notin {Unset, Undefined}
        /\ pc[r] = "Done" => result[r] # Unset
        /\ pc[r] = "Failed" => result[r] = Unset

C7_Witness ==
    \E r \in Runs :
        /\ pc[r] = "Done"
        /\ result[r] # Unset
        /\ \E q \in Runs : pc[q] = "Failed" /\ failedIn[q] = "validateCompliance"

\* The position of a run in the order of the code.
PcRank(p) ==
    CASE p = "Idle" -> 0
      [] p = "Ingesting" -> 1
      [] p = "Extracting" -> 2
      [] p = "Storing" -> 3
      [] p = "RetrievingRules" -> 4
      [] p = "Ranking" -> 5
      [] p = "Calculating" -> 6
      [] p = "Validating" -> 7
      [] OTHER -> 8

\* The pipeline stage a position belongs to: the insert follows extraction
\* and the ranking is the second half of rule retrieval.
StageRank(p) ==
    CASE p = "Idle" -> 0
      [] p = "Ingesting" -> 1
      [] p \in {"Extracting", "Storing"} -> 2
      [] p \in {"RetrievingRules", "Ranking"} -> 3
      [] p = "Calculating" -> 4
      [] p = "Validating" -> 5
      [] OTHER -> 6

StageStep(r) ==
    pc'[r] # pc[r] =>
        /\ pc[r] \notin {"Done", "Failed"}
        /\ PcRank(pc'[r]) > PcRank(pc[r])
        /\ pc'[r] # "Failed" => StageRank(pc'[r]) <= StageRank(pc[r]) + 1

StageInputsReady(r) ==
    /\ PcRank(pc[r]) \in 3..7 => documentData[r] # Unset
    /\ PcRank(pc[r]) \in 6..7 => taxRules[r] # Unset
    /\ pc[r] = "Validating" => taxCalculation[r] # Unset
    /\ pc[r] = "Done" => complianceCheck[r] # Unset

\* C8: within one run the stages start in the order Ingesting, Extracting,
\* RetrievingRules, Calculating, Validating, each after the previous one
\* completed; none is entered twice, none is skipped, there is no backward
\* step and no step out of Done or Failed.
C8_StagesInOrder ==
    /\ [](\A r \in Runs : StageInputsReady(r))
    /\ [][\A r \in Runs : StageStep(r)]_vars

C8_Witness ==
    \E r \in Runs :
        /\ pc[r] = "Done"
        /\ Truthy(userId[r])
        /\ Len(documents) > 0

\* calculateNFETaxes followed by the regime adjustment.
NFEThenRegime(d) ==
    LET base == calculateNFETaxes(d, Arr(<<>>))
    IN applySpecialRegimes(base.v, d, Arr(<<>>))

\* C9: for every documentType outside NFE, NFSE, NFCE, CTE,
\* calculateTaxesWithRules gives what calculateNFETaxes followed by the
\* regime adjustment gives.
C9_UnknownTypeUsesNFE ==
    (cpc[1] = "done" /\ PropertyKey(Get(cdoc, "documentType")) \notin FourTypes) =>
        cres[1] = NFEThenRegime(cdoc)

\* base * rate for a whole number of currency units and a rate in hundredths
\* of a percent.
Amount(base, bp) == Num((base.n \div Scale) * bp)

\* The components of the formula table.
TableTaxes(d) ==
    LET type == Get(d, "documentType").s
        base == Or(Get(d, "totalValue"), Num(0))
        icms == getICMSRates(Or(Get(d, "state"), Str("SP")),
                             Or(Get(d, "operationType"), Str("VENDA")))
        iss == getISSRate(Or(Get(d, "municipality"), Str("SÃ£o Paulo")), Str("1001")).v
        basic == OptGet(Get(d, "taxInfo"), "ipiCategory") = Str("basic")
    IN CASE type = "NFE" ->
                [ICMS |-> Amount(base, icms.standard * 100),
                 IPI |-> IF basic THEN Amount(base, 400) ELSE Num(0),
                 PIS |-> Amount(base, 165),
                 COFINS |-> Amount(base, 760)]
         [] type = "NFSE" ->
                [ISS |-> Amount(base, iss * 100),
                 PIS |-> Amount(base, 165),
                 COFINS |-> Amount(base, 760)]
         [] type = "NFCE" ->
                [ICMS |-> Amount(base, icms.reduced * 100),
                 PIS |-> Amount(base, 165),
                 COFINS |-> Amount(base, 760)]
         [] type = "CTE" ->
                [ICMS |-> Amount(base, 1200)]

\* The worked example: base 1000, SP, VENDA.
IsExample(d) ==
    /\ Get(d, "documentType") \in {Undefined, Str("NFE")}
    /\ Get(d, "totalValue") = Num(1000 * Scale)
    /\ Get(d, "state") = Str("SP")
    /\ Get(d, "operationType") = Str("VENDA")
    /\ OptGet(Get(d, "taxInfo"), "ipiCategory") = Undefined

ExampleTaxes ==
    [ICMS |-> Num(180 * Scale),
     IPI |-> Num(0),
     PIS |-> Num(165000),
     COFINS |-> Num(76 * Scale)]

\* C10: each of the four calculators returns exactly the components of the
\* formula table with the table's amounts, and base 1000, SP, VENDA gives
\* ICMS 180, PIS 16.5, COFINS 76, IPI 0.
C10_FormulaTable ==
    \A c \in Calls :
        cpc[c] = "done" =>
            /\ (/\ Get(cdoc, "documentType") \in {Str(x) : x \in FourTypes}
                /\ Or(Get(cdoc, "totalValue"), Num(0)).t = "number") =>
                  cbase[c] = Return(Obj([baseValue |-> Or(Get(cdoc, "totalValue"), Num(0)),
                                         taxes |-> Obj(TableTaxes(cdoc))]))
            /\ IsExample(cdoc) =>
                  /\ cbase[c].ok
                  /\ Get(cbase[c].v, "baseValue") = Num(1000 * Scale)
                  /\ Get(cbase[c].v, "taxes") = Obj(ExampleTaxes)

C10_Witness ==
    /\ cpc[1] = "done"
    /\ Get(cdoc, "documentType") = Str("NFCE")
    /\ Get(cdoc, "state") = Str("RJ")
    /\ Get(cdoc, "totalValue") = Num(1000 * Scale)
    /\ Get(Get(cbase[1].v, "taxes"), "ICMS") = Num(130 * Scale)

\* documentData with totalValue set to b, every other field as it is.
WithTotal(d, b) ==
    Obj([k \in DOMAIN d.f \cup {"totalValue"} |->
            IF k = "totalValue" THEN b ELSE d.f[k]])

\* The tax amounts of a completed call, by tax name: none when the call threw
\* or returned a value with no taxes object.
TaxAmounts(res) ==
    IF res.ok /\ Get(res.v, "taxes").t = "object"
    THEN Get(res.v, "taxes").f
    ELSE [k \in {} |-> Undefined]

NonNegativeBases == {Num(k * BaseStep) : k \in 0..MaxBase}

\* C11: for every document type, jurisdiction and regime and all base values
\* 0 <= b1 <= b2, every tax amount calculateTaxesWithRules computes for b1 is
\* a number, at least 0, and at most the amount of the same tax computed for
\* b2 with every other field of the record unchanged.
C11_AmountsMonotone ==
    \A c \in Calls :
      (cpc[c] = "done" /\ Get(cdoc, "totalValue") \in NonNegativeBases) =>
        \A b2 \in NonNegativeBases :
            b2.n >= Get(cdoc, "totalValue").n =>
                LET a1 == TaxAmounts(cres[c])
                    a2 == TaxAmounts(calculateTaxesWithRules(WithTotal(cdoc, b2), Arr(<<>>)))
                IN /\ DOMAIN a1 = DOMAIN a2
                   /\ \A k \in DOMAIN a1 :
                         /\ a1[k].t = "number" /\ a2[k].t = "number"
                         /\ a1[k].n >= 0
                         /\ a1[k].n <= a2[k].n

C11_Witness ==
    /\ cpc[1] = "done"
    /\ Get(cdoc, "documentType") = Str("NFE")
    /\ Get(cdoc, "totalValue") = Num(BaseStep)
    /\ TaxAmounts(cres[1])["IPI"] = Num(20 * Scale)
    /\ TaxAmounts(cres[1])["ICMS"] = Num(45 * Scale)

\* C12: in every result processDocument returns, whatever record the
\* structuring service produced, every amount in taxCalculation.taxes is a
\* number that is at least 0.
C12_ReturnedAmountsNonNegative ==
    \A r \in Runs :
        pc[r] = "Done" =>
            LET taxes == Get(Get(result[r], "taxCalculation"), "taxes")
            IN taxes.t = "object" =>
                  \A k \in DOMAIN taxes.f :
                      taxes.f[k].t = "number" /\ taxes.f[k].n >= 0

SimplesNacional(d) == OptGet(Get(d, "taxInfo"), "regime") = Str("Simples Nacional")

\* C13: under regime "Simples Nacional" the result of calculateTaxesWithRules
\* has an ICMS of exactly half the base calculation's ICMS, when that has
\* one, and every other amount and baseValue as in the base calculation;
\* when the base calculation has no ICMS or the regime is another one, the
\* result equals the base calculation.
C13_SimplesNacionalHalvesICMS ==
    (cpc[1] = "done" /\ cbase[1].ok) =>
        LET baseTaxes == Get(cbase[1].v, "taxes")
        IN IF SimplesNacional(cdoc) /\ Get(baseTaxes, "ICMS") # Undefined
           THEN /\ cres[1].ok
                /\ Get(cres[1].v, "baseValue") = Get(cbase[1].v, "baseValue")
                /\ LET taxes == Get(cres[1].v, "taxes")
                   IN /\ taxes.t = "object"
                      /\ DOMAIN taxes.f = DOMAIN baseTaxes.f
                      /\ Times(taxes.f["ICMS"], 2 * Scale) = baseTaxes.f["ICMS"]
                      /\ \A k \in DOMAIN taxes.f \ {"ICMS"} : taxes.f[k] = baseTaxes.f[k]
           ELSE cres[1] = cbase[1]

\* C14: two calls of calculateTaxesWithRules with the same record and the
\* same rule list return the same TaxCalculation, and the first call changes
\* nothing the second reads: the record is after the call what it was before.
C14_CalculationIdempotent ==
    /\ cpc[1] = "done" => cobj = cdoc
    /\ cpc[2] = "done" => cres[2] = cres[1]

\* C15: when totalValue is absent, null or a string that is no number, every
\* calculator takes it as 0 and does not raise: baseValue is 0 and every tax
\* amount is the number 0.
C15_InvalidTotalIsZero ==
    (/\ cpc[1] = "done"
     /\ PropertyKey(Get(cdoc, "documentType")) \notin ObjectPrototypeKeys
     /\ Get(cdoc, "totalValue").t # "number") =>
        /\ cbase[1].ok
        /\ Get(cbase[1].v, "baseValue") = Num(0)
        /\ \A k \in DOMAIN TaxAmounts(cbase[1]) : TaxAmounts(cbase[1])[k] = Num(0)

\* The insert of run r was attempted and left no row.
InsertFailed(r) ==
    /\ Truthy(userId[r])
    /\ documentData[r] \notin {Unset, Null}
    /\ pc[r] # "Storing"
    /\ \A i \in 1..Len(documents) : documents[i].userId # userId[r]

\* The insert of run r put its row in the table.
Inserted(r) ==
    \E i \in 1..Len(documents) : documents[i].userId = userId[r]

\* The answers the external services gave to run r.
Responses(r) == <<extractContent[r], docs[r], validateContent[r]>>

\* A step of run r out of the insert: on to the rule search, not to Failed,
\* with the record as extracted.
InsertStep(r) ==
    (pc[r] = "Storing" /\ pc'[r] # "Storing") =>
        /\ pc'[r] = "RetrievingRules"
        /\ failedIn'[r] = "none"
        /\ documentData'[r] = documentData[r]

\* C16: a failed insert in storeDocumentInDb does not change the outcome:
\* processDocument goes on to the rule search, and a run whose insert failed
\* returns the result a run with the same service answers returns whose
\* insert succeeded.
C16_InsertFailureHarmless ==
    /\ [][\A r \in Runs : InsertStep(r)]_vars
    /\ [](\A r, q \in Runs :
            (/\ InsertFailed(r) /\ Inserted(q)
             /\ pc[r] = "Done" /\ pc[q] = "Done"
             /\ Responses(r) = Responses(q)) => result[r] = result[q])

C16_Witness ==
    /\ InsertFailed(1) /\ Inserted(2)
    /\ pc[1] = "Done" /\ pc[2] = "Done"
    /\ Responses(1) = Responses(2)
    /\ Get(Get(result[1], "documentData"), "municipality") = Str("Campinas")

\* What a run returns that executes alone and gets the answers content (from
\* the structuring service), found (from the search) and judgment.
SoloResult(content, found, judgment) ==
    LET record == extractDocumentData(content)
        rules == processTaxRuleSearch(found)
    IN Obj([documentData |-> documentDataAfter(record, rules),
            taxCalculation |-> calculateTaxesWithRules(record, rules).v,
            complianceCheck |-> validateCompliance(judgment),
            applicableRules |-> rules])

\* The variables of run r.
RunState(r) ==
    <<pc[r], userId[r], extractContent[r], documentData[r], docs[r], taxRules[r],
      taxCalculation[r], validateContent[r], complianceCheck[r], result[r],
      failedIn[r], inserts[r]>>

\* C17: for two runs on different documents, under every interleaving, the
\* result of each run is the one it produces alone with the same service
\* answers; every local of a run is a function of that run's own answers,
\* and a step of one run leaves the locals of the other as they are.
C17_RunsIndependent ==
    /\ [](\A r \in Runs :
            /\ taxRules[r] # Unset => taxRules[r] = processTaxRuleSearch(docs[r])
            /\ taxCalculation[r] # Unset =>
                  taxCalculation[r] =
                      calculateTaxesWithRules(extractDocumentData(extractContent[r]),
                                              processTaxRuleSearch(docs[r])).v
            /\ pc[r] = "Done" =>
                  result[r] = SoloResult(extractContent[r], docs[r], validateContent[r]))
    /\ [][\A r, q \in Runs :
            (RunState(r)' # RunState(r) /\ q # r) => RunState(q)' = RunState(q)]_vars

C17_Witness ==
    /\ pc[1] = "Done" /\ pc[2] = "Done"
    /\ extractContent[1] # extractContent[2]
    /\ Len(docs[1]) # Len(docs[2])
    /\ validateContent[1] # validateContent[2]
    /\ result[1] # result[2]
    /\ Len(documents) = 2

\* C18: once the caller has abandoned a run, the run starts no further
\* stage: the call in flight may complete or fail, and nothing follows it.
C18_NoStageAfterAbandon ==
    [][\A r \in Runs :
          abandoned[r] => (pc'[r] = pc[r] \/ pc'[r] = "Failed")]_vars

\* The record of a stored row.
BlobOf(row) == JSONParse(row.rawData).v

\* The totalValue field of a row's record, a missing one counted as 0.
BlobTotal(row) ==
    LET tv == Get(BlobOf(row), "totalValue")
    IN IF tv.t = "number" THEN tv.n ELSE 0

\* The amount of tax in calculateTaxesWithRules(blob, []), 0 when the
\* calculation has no such tax.
BlobTax(row, tax) ==
    LET amounts == TaxAmounts(calculateTaxesWithRules(BlobOf(row), Arr(<<>>)))
    IN IF tax \in DOMAIN amounts /\ amounts[tax].t = "number"
       THEN amounts[tax].n
       ELSE 0

RECURSIVE SumOfTotals(_, _)
SumOfTotals(rows, n) ==
    IF n = 0 THEN 0 ELSE SumOfTotals(rows, n - 1) + BlobTotal(rows[n])

RECURSIVE SumOfTax(_, _, _)
SumOfTax(rows, n, tax) ==
    IF n = 0 THEN 0 ELSE SumOfTax(rows, n - 1, tax) + BlobTax(rows[n], tax)

\* C19: given the rows of the month, generateTaxReport builds a report with
\* totalDocuments the number of rows, totalValue the sum of the records'
\* totalValue fields (a missing one counted as 0), and for each tax name the
\* sum over all rows of that tax's amount in calculateTaxesWithRules(blob, []).
C19_ReportSums ==
    (ri >= 1 /\ rpc # "summing") =>
        /\ report # Undefined
        /\ report.ok
        /\ Get(report.v, "totalDocuments") = Num(Len(rdocs) * Scale)
        /\ Get(report.v, "totalValue") = Num(SumOfTotals(rdocs, Len(rdocs)))
        /\ \A tax \in DOMAIN InitialTaxSum :
              Get(Get(report.v, "taxes"), tax) = Num(SumOfTax(rdocs, Len(rdocs), tax))

\* C20: every call of searchTaxRules that returns gives at most 5 excerpts,
\* and no more excerpts than entries were indexed.
C20_AtMostFiveExcerpts ==
    spc = "returned" =>
        /\ sresults.t = "array"
        /\ Len(sresults.a) <= 5
        /\ Len(sresults.a) <= Len(sdocs)

C20_Witness ==
    /\ spc = "returned"
    /\ Len(sdocs) > 5
    /\ Len(sresults.a) = 5
    /\ sresults.a[5] = SearchDoc(5)

\* C21: every text in the similarity index is a window of at most 1000
\* characters of a retrieved document, and a retrieved document of more than
\* 1000 characters is never indexed as a single chunk.
C21_IndexedInWindows ==
    spc \in {"ranking", "returned"} =>
        /\ \A i \in 1..Len(sindex) : Len(sindex[i].s) <= 1000
        /\ \A d \in 1..Len(sdocs) :
              Len(Get(sdocs[d], "pageContent").s) > 1000 =>
                  \A i \in 1..Len(sindex) : sindex[i] # Get(sdocs[d], "pageContent")

\* C22: a failure of the search call or of the similarity ranking is not
\* swallowed in searchTaxRules: the call ends by raising to its caller, it
\* returns no result list, and it stays failed.
C22_SearchFailureRaises ==
    /\ [](serror # "none" => (spc = "failed" /\ sresults = Undefined))
    /\ [](spc = "returned" => serror = "none")
    /\ [][spc = "failed" => spc' = "failed"]_vars

C22_Witness ==
    /\ spc = "failed"
    /\ serror = "processTaxRuleSearch"
    /\ Len(sdocs) > 0
    /\ sresults = Undefined

\* The run failed in the rule retrieval, the calculation or the validation.
LateFailure(r) ==
    /\ pc[r] = "Failed"
    /\ failedIn[r] \in {"searchTaxRules", "calculateTaxesWithRules", "validateCompliance"}

\* The number of rows of table documents that carry the userId of run r.
RowsOf(r) == Cardinality({i \in 1..Len(documents) : documents[i].userId = userId[r]})

\* The insert is attempted once, between extraction and rule retrieval, in
\* a run with a userId that got its record, and in no other run.
AttemptedOnce(r) ==
    /\ Len(inserts[r]) <= 1
    /\ (Truthy(userId[r]) /\ documentData[r] # Unset) => Len(inserts[r]) = 1
    /\ (~Truthy(userId[r]) \/ documentData[r] = Unset) =>
          (inserts[r] = <<>> /\ RowsOf(r) = 0)
    /\ inserts[r] = <<"pending">> <=> pc[r] = "Storing"

\* C23 as stated: in a run with a userId the insert is attempted exactly once,
\* after extraction and before rule retrieval; a run that later fails in
\* retrieval, calculation or validation has left its row in the store; a run
\* without userId or failing before extraction completes attempts no insert.
C23_RowLeftBeforeLateFailure ==
    \A r \in Runs :
        /\ AttemptedOnce(r)
        /\ (LateFailure(r) /\ Truthy(userId[r])) => RowsOf(r) = 1

\* C23 amended: the insert is attempted exactly once as stated, and a run
\* that later fails has made that attempt: its row is in the store exactly
\* when the insert succeeded, a rejected insert leaving no row.
C23_InsertAttemptedOnce ==
    \A r \in Runs :
        /\ AttemptedOnce(r)
        /\ RowsOf(r) <= 1
        /\ (RowsOf(r) = 1) <=> (Truthy(userId[r]) /\ inserts[r] = <<"resolved">>)
        /\ (LateFailure(r) /\ Truthy(userId[r])) =>
              inserts[r] \in {<<"resolved">>, <<"rejected">>}

C23_Witness ==
    /\ LateFailure(1) /\ inserts[1] = <<"resolved">> /\ RowsOf(1) = 1
    /\ LateFailure(2) /\ inserts[2] = <<"rejected">> /\ RowsOf(2) = 0
    /\ failedIn[1] = "calculateTaxesWithRules"

\* The rows of table users with this whatsappId.
RowsFor(whatsappId) ==
    {i \in 1..Len(users) : Get(users[i], "whatsappId") = Str(whatsappId)}

\* The handler has dispatched its message with the one row of its sender.
DispatchedWithRow(h) ==
    /\ Cardinality(RowsFor(hfrom[h])) = 1
    /\ huser[h] # Null
    /\ \E i \in RowsFor(hfrom[h]) : huser[h] = users[i]

\* C24: whatever the interleaving of the handlers of first-contact messages
\* from one WhatsApp id, table users holds exactly one row for that id once
\* a handler dispatches, and every handler dispatches its message with a
\* non-null user, that row.
C24_EveryHandlerDispatchesRow ==
    \A h \in Handlers : hpc[h] = "dispatched" => DispatchedWithRow(h)

\* What the UNIQUE column and the second read do secure: table users never
\* holds two rows for one WhatsApp id, and a handler none of whose own
\* database calls was rejected for another reason than the UNIQUE constraint
\* dispatches with the single row; a dispatched user is null or that row.
OneRowPerWhatsAppId ==
    /\ \A w \in WhatsAppIds : Cardinality(RowsFor(w)) <= 1
    /\ \A h \in Handlers :
          hpc[h] = "dispatched" =>
              /\ ~hfault[h] => DispatchedWithRow(h)
              /\ huser[h] = Null \/ DispatchedWithRow(h)

\* The race itself: two handlers of one sender both found no user, the
\* INSERT of the second was rejected on the UNIQUE constraint, and both
\* dispatched with the same row.
RaceResolved ==
    \E h1, h2 \in Handlers :
        /\ h1 # h2
        /\ hfrom[h1] = hfrom[h2]
        /\ hpc[h1] = "dispatched" /\ hpc[h2] = "dispatched"
        /\ ~hfault[h1] /\ ~hfault[h2]
        /\ Len(users) = 1
        /\ huser[h1] = users[1] /\ huser[h2] = users[1]
        /\ huserId[h1] = Get(users[1], "id")
        /\ huserId[h2] = Null

====
